---------------------------- MODULE Spec2Model ----------------------------
(***************************************************************************)
(* Model of the two scraping pipelines of the repository:                  *)
(*   Google100.py      search-API pipeline (Google Custom Search)          *)
(*   GoogleNews100.py  feed pipeline (Google News RSS + Playwright)        *)
(*                                                                         *)
(* Strings are sequences of characters.  The characters that the text      *)
(* normaliser distinguishes are "sp" (space), "tab", "cr", "nl" and "ff"   *)
(* (form feed: whitespace to str.strip(), matched by no pattern); every    *)
(* other element of a sequence is an ordinary, non-whitespace character    *)
(* or token.                                                               *)
(***************************************************************************)
EXTENDS Integers, Sequences, FiniteSets, TLC

-----------------------------------------------------------------------------
(* Bounds of the model *)

\* longest input string given to clean_text in SpecClean
MaxLen == 5

-----------------------------------------------------------------------------
(* Text Normalizer: clean_text *)

Chars == {"sp", "tab", "cr", "nl", "ff", "x"}
Blank == {"sp", "tab"}
\* str.strip() with no argument removes every whitespace character
White == {"sp", "tab", "cr", "nl", "ff"}

RECURSIVE RunLen(_, _, _)
\* length of the maximal run of characters of set cs that starts at s[i]
RunLen(s, i, cs) ==
    IF i > Len(s) \/ s[i] \notin cs THEN 0 ELSE 1 + RunLen(s, i + 1, cs)

RECURSIVE SubCrLf(_, _)
\* re.sub(r"\r\n?", "\n", text), scanning from position i
SubCrLf(s, i) ==
    IF i > Len(s) THEN <<>>
    ELSE IF s[i] = "cr"
         THEN IF i < Len(s) /\ s[i + 1] = "nl"
              THEN <<"nl">> \o SubCrLf(s, i + 2)
              ELSE <<"nl">> \o SubCrLf(s, i + 1)
         ELSE <<s[i]>> \o SubCrLf(s, i + 1)

RECURSIVE SubBlankNl(_, _)
\* re.sub(r"[ \t]+\n", "\n", text): a run of blanks is dropped when a newline
\* follows it directly
SubBlankNl(s, i) ==
    IF i > Len(s) THEN <<>>
    ELSE LET n == RunLen(s, i, Blank) IN
         IF n >= 1 /\ i + n <= Len(s) /\ s[i + n] = "nl"
         THEN <<"nl">> \o SubBlankNl(s, i + n + 1)
         ELSE <<s[i]>> \o SubBlankNl(s, i + 1)

RECURSIVE SubNl3(_, _)
\* re.sub(r"\n{3,}", "\n\n", text)
SubNl3(s, i) ==
    IF i > Len(s) THEN <<>>
    ELSE LET n == RunLen(s, i, {"nl"}) IN
         IF n >= 3
         THEN <<"nl", "nl">> \o SubNl3(s, i + n)
         ELSE <<s[i]>> \o SubNl3(s, i + 1)

RECURSIVE SubBlank2(_, _)
\* re.sub(r"[ \t]{2,}", " ", text)
SubBlank2(s, i) ==
    IF i > Len(s) THEN <<>>
    ELSE LET n == RunLen(s, i, Blank) IN
         IF n >= 2
         THEN <<"sp">> \o SubBlank2(s, i + n)
         ELSE <<s[i]>> \o SubBlank2(s, i + 1)

RECURSIVE LStrip(_)
LStrip(s) == IF s # <<>> /\ Head(s) \in White THEN LStrip(Tail(s)) ELSE s

RECURSIVE RStrip(_)
RStrip(s) ==
    IF s # <<>> /\ s[Len(s)] \in White
    THEN RStrip(SubSeq(s, 1, Len(s) - 1)) ELSE s

\* str.strip()
Strip(s) == RStrip(LStrip(s))

\* a plausible slip: the line endings unified last instead of first
clean_text_crlf_last(text) ==
    Strip(SubCrLf(SubBlank2(SubNl3(SubBlankNl(text, 1), 1), 1), 1))

clean_text(text) ==
    Strip(SubBlank2(SubNl3(SubBlankNl(SubCrLf(text, 1), 1), 1), 1))


-----------------------------------------------------------------------------
(* URLs.  A URL is a sequence of tokens <<scheme, host, path>>; a substring *)
(* test of the code is a test on the tokens that can hold the substring.    *)

UrlA == <<"http", "a.example", "/1">>
UrlB == <<"https", "b.example", "/2">>
UrlG == <<"https", "News.Google.com", "/rss/articles/x">>
\* an href that is not an absolute HTTP(S) URL
UrlRel == <<"/relative/link">>
\* None or the empty string: both are falsy in the code's tests
NoUrl == <<>>

Urls == {UrlA, UrlB, UrlG}

\* str.lower() on the tokens that carry upper-case letters
LowerTok(t) == IF t = "News.Google.com" THEN "news.google.com" ELSE t
Lower(u) == [i \in 1..Len(u) |-> LowerTok(u[i])]

\* needle in u, for a needle that lies within one token
HasTok(u, needle) == \E i \in 1..Len(u) : u[i] = needle

\* href.startswith("http")
StartsWithHttp(u) == u # <<>> /\ u[1] \in {"http", "https"}

is_google_or_consent_url(url) ==
    LET u == Lower(url) IN
       \/ HasTok(u, "news.google.com")
       \/ HasTok(u, "consent.google.com")
       \/ HasTok(u, "accounts.google.com")
       \/ \E i \in 1..(Len(u) - 1) : u[i] = "www.google.com" /\ u[i + 1] = "/sorry"

-----------------------------------------------------------------------------
(* URL Deduplicator *)

Min(a, b) == IF a < b THEN a ELSE b

\* Python's s[:n] for n >= 0
Take(s, n) == SubSeq(s, 1, Min(n, Len(s)))

RECURSIVE DedupLoop(_, _, _, _)
\* for u in urls: if u not in seen: seen.add(u); out.append(u)
DedupLoop(urls, i, seen, out) ==
    IF i > Len(urls) THEN out
    ELSE IF urls[i] \in seen
         THEN DedupLoop(urls, i + 1, seen, out)
         ELSE DedupLoop(urls, i + 1, seen \cup {urls[i]}, Append(out, urls[i]))

\* a plausible slip: the seen-set test dropped
UniqueThenCutNoDedup(urls, max) == Take(urls, max)

\* the tail of both Result Sources: deduplicate, then slice to max_results
UniqueThenCut(urls, max) == Take(DedupLoop(urls, 1, {}, <<>>), max)

-----------------------------------------------------------------------------
(* Result Source, search variant: google_custom_search *)

\* "num": 10 and start += 10
PageStep == 10
\* if start > 91: break
MaxStart == 91
\* most items in one page of the API's answer, in the model
MaxItems == 2
\* largest max_results tried
MaxResults == 2

ApiStatuses == {200, 403}

\* it.get("link") of an item: a URL, or nothing
Links == {UrlA, UrlB, NoUrl}
ItemSeqs == UNION {[1..n -> Links] : n \in 0..MaxItems}

RECURSIVE CollectLinks(_, _, _, _)
\* for it in items: link = it.get("link"); if link: urls.append(link);
\*     if len(urls) >= max_results: break
CollectLinks(items, i, urls, max) ==
    IF i > Len(items) THEN urls
    ELSE IF items[i] # NoUrl
         THEN LET more == Append(urls, items[i]) IN
              IF Len(more) >= max THEN more
              ELSE CollectLinks(items, i + 1, more, max)
         ELSE CollectLinks(items, i + 1, urls, max)

\* a plausible slip: every status taken for a success
ApiStatusOkAlways(status) == TRUE

\* r.status_code != 200 raises
ApiStatusOk(status) == status = 200

\* a plausible slip: the offset cap one page too late
StartCapReachedLate(s) == s > MaxStart + PageStep

\* if start > 91: break
StartCapReached(s) == s > MaxStart

-----------------------------------------------------------------------------
(* Result Source, feed variant: search_google_news_urls *)

\* longest feed, in the model
MaxFeed == 3

\* feed entries: source.href, the hrefs of the anchors of the summary markup
\* in document order, links[] and link
EntrySource ==
    [source |-> UrlA, summary |-> <<UrlB>>, links |-> <<>>, link |-> UrlG]
EntrySummary ==
    [source |-> NoUrl, summary |-> <<UrlB, UrlA>>, links |-> <<>>, link |-> UrlG]
EntryAlternate ==
    [source |-> UrlRel, summary |-> <<UrlRel, UrlB>>,
     links |-> << [rel |-> "self", href |-> UrlB],
                  [rel |-> "alternate", href |-> <<"https", "news.google.com", "/y">>],
                  [rel |-> "alternate", href |-> UrlA] >>,
     link |-> UrlG]
EntryLink ==
    [source |-> NoUrl, summary |-> <<>>,
     links |-> << [rel |-> "alternate", href |-> <<"https", "news.google.com", "/y">>] >>,
     link |-> UrlG]
EntryNone ==
    [source |-> NoUrl, summary |-> <<>>, links |-> <<>>, link |-> UrlRel]

Entries == {EntrySource, EntrySummary, EntryAlternate, EntryLink, EntryNone}
Feeds == UNION {[1..n -> Entries] : n \in 0..MaxFeed}

\* first anchor with an href; kept if absolute and not on the aggregator
extract_publisher_url_from_summary(entry) ==
    IF entry.summary = <<>> THEN NoUrl
    ELSE LET href == entry.summary[1] IN
         IF StartsWithHttp(href) /\ ~HasTok(href, "news.google.com")
         THEN href ELSE NoUrl

RECURSIVE FirstAlternate(_, _)
FirstAlternate(links, i) ==
    IF i > Len(links) THEN NoUrl
    ELSE IF /\ links[i].rel = "alternate"
            /\ StartsWithHttp(links[i].href)
            /\ ~HasTok(links[i].href, "news.google.com")
         THEN links[i].href
         ELSE FirstAlternate(links, i + 1)

extract_real_article_url(entry) ==
    IF StartsWithHttp(entry.source) THEN entry.source
    ELSE IF extract_publisher_url_from_summary(entry) # NoUrl
         THEN extract_publisher_url_from_summary(entry)
    ELSE IF FirstAlternate(entry.links, 1) # NoUrl
         THEN FirstAlternate(entry.links, 1)
    ELSE IF StartsWithHttp(entry.link) THEN entry.link
    ELSE NoUrl

RECURSIVE FeedLoop(_, _, _, _)
\* for entry in feed.entries: u = ...; if u: urls.append(u);
\*     if len(urls) >= max_results: break
FeedLoop(feed, i, urls, max) ==
    IF i > Len(feed) THEN urls
    ELSE LET u == extract_real_article_url(feed[i])
             more == IF u # NoUrl THEN Append(urls, u) ELSE urls
         IN IF Len(more) >= max THEN more
            ELSE FeedLoop(feed, i + 1, more, max)

search_google_news_urls(feed, max) ==
    UniqueThenCut(FeedLoop(feed, 1, <<>>, max), max)

\* the URLs the whole feed resolves to, in feed order
RECURSIVE Resolved(_, _)
Resolved(feed, i) ==
    IF i > Len(feed) THEN <<>>
    ELSE LET u == extract_real_article_url(feed[i]) IN
         (IF u # NoUrl THEN <<u>> ELSE <<>>) \o Resolved(feed, i + 1)

-----------------------------------------------------------------------------
(* Pages.  An HTML document is a sequence of blocks, each a tag with its    *)
(* text; broken marks a document on which the HTML parser (or the           *)
(* readability library) raises.                                             *)

PageArticle ==
    [broken |-> FALSE,
     blocks |-> << [tag |-> "nav", text |-> <<"x">>],
                   [tag |-> "p", text |-> <<"x", "sp", "sp", "x", "nl", "nl", "nl", "x", "sp">>] >>]
PageEmpty ==
    [broken |-> FALSE,
     blocks |-> << [tag |-> "script", text |-> <<"x">>],
                   [tag |-> "p", text |-> <<"sp", "nl", "tab">>] >>]
PageConsent ==
    [broken |-> FALSE,
     blocks |-> << [tag |-> "aside", text |-> <<"Tout Accepter">>],
                   [tag |-> "p", text |-> <<"x", "sp", "sp", "x", "nl", "nl", "nl", "x", "sp">>] >>]
PageBroken == [broken |-> TRUE, blocks |-> <<>>]

Pages == {PageArticle, PageEmpty, PageConsent, PageBroken}

Statuses == {200, 404}
StatusText(s) == IF s = 404 THEN "404" ELSE "200"

ContentTypes == {"text/html; charset=utf-8", "application/xhtml+xml", "application/pdf"}
\* "text/html" in ctype or "application/xhtml+xml" in ctype
IsHtmlType(ctype) == ctype \in {"text/html; charset=utf-8", "application/xhtml+xml"}

\* what requests.get meets: a transport failure, or a response
Responses ==
    {[neterr |-> TRUE, status |-> 200, ctype |-> "application/pdf", page |-> PageBroken]}
    \cup [neterr : {FALSE}, status : {404}, ctype : ContentTypes, page : {PageArticle}]
    \cup [neterr : {FALSE}, status : {200}, ctype : {"application/pdf"}, page : {PageArticle}]
    \cup [neterr : {FALSE}, status : {200}, ctype : {"text/html; charset=utf-8"}, page : Pages]
    \cup [neterr : {FALSE}, status : {200}, ctype : {"application/xhtml+xml"},
           page : {PageArticle}]

\* the fixed marker and a reason
Inaccessible(reason) == <<"[INACCESSIBLE]", "sp">> \o reason

RECURSIVE GetText(_, _, _)
\* soup.get_text(separator="\n") once the tags of drop are decomposed
GetText(blocks, i, drop) ==
    IF i > Len(blocks) THEN <<>>
    ELSE IF blocks[i].tag \in drop THEN GetText(blocks, i + 1, drop)
    ELSE LET rest == GetText(blocks, i + 1, drop) IN
         IF rest = <<>> THEN blocks[i].text
         ELSE blocks[i].text \o <<"nl">> \o rest

SearchDropTags == {"script", "style", "noscript", "header", "footer", "nav", "aside"}
FeedDropTags == {"script", "style", "noscript"}

\* a plausible slip: the emptiness test dropped
TextResultUnchecked(text) == [raised |-> FALSE, ok |-> TRUE, content |-> text]

\* if not text: return False, "[INACCESSIBLE] Contenu vide ..."; return True, text
TextResult(text) ==
    IF text = <<>>
    THEN [raised |-> FALSE, ok |-> FALSE,
          content |-> Inaccessible(<<"Contenu vide ou non extractible">>)]
    ELSE [raised |-> FALSE, ok |-> TRUE, content |-> text]

Failure(reason) == [raised |-> FALSE, ok |-> FALSE, content |-> Inaccessible(reason)]

\* an exception that leaves the function
Raised == [raised |-> TRUE, ok |-> FALSE, content |-> <<>>]

-----------------------------------------------------------------------------
(* Search-API pipeline: extract_page_text *)

\* only requests.exceptions.RequestException is caught: what the parser
\* raises leaves the function
extract_page_text_search(resp) ==
    IF resp.neterr THEN Failure(<<"Erreur reseau:", "sp", "timeout">>)
    ELSE IF resp.status >= 400 THEN Failure(<<"HTTP", "sp", StatusText(resp.status)>>)
    ELSE IF ~IsHtmlType(resp.ctype)
         THEN Failure(<<"Content-Type non HTML:", "sp", resp.ctype>>)
    ELSE IF resp.page.broken THEN Raised
    ELSE TextResult(clean_text(GetText(resp.page.blocks, 1, SearchDropTags)))

-----------------------------------------------------------------------------
(* Feed pipeline: consent detector, fetchers, extractor *)

triggers ==
    {"before you continue", "we use cookies", "cookies and data", "consent",
     "privacy", "reject all", "accept all", "tout accepter", "tout refuser",
     "j'accepte", "accepter", "refuser", "parametres de confidentialite"}

\* str.lower() of a token of page text
LowerText(t) == IF t = "Tout Accepter" THEN "tout accepter" ELSE t

\* the triggers that occur in a lower-cased token
TriggersIn(t) ==
    IF t = "tout accepter" THEN {"tout accepter", "accepter"} ELSE {t} \cap triggers

\* any(x in t for x in triggers) on the raw HTML, scripts included
looks_like_cookie_consent_page(page) ==
    \E i \in 1..Len(page.blocks) :
        \E j \in 1..Len(page.blocks[i].text) :
            TriggersIn(LowerText(page.blocks[i].text[j])) # {}

\* Document(html).summary(): raises on a broken document, else keeps the
\* main content and drops the boilerplate blocks
BoilerplateTags == {"nav", "header", "footer", "aside"}

html_to_text(blocks) == clean_text(GetText(blocks, 1, FeedDropTags \cup BoilerplateTags))

\* try: ... except Exception as e: return False, "[INACCESSIBLE] Erreur extraction"
extract_text_from_html(page) ==
    IF page.broken THEN Failure(<<"Erreur extraction:", "sp", "Document is empty">>)
    ELSE TextResult(html_to_text(page.blocks))

fetch_html_requests(resp) ==
    IF resp.neterr
    THEN [ok |-> FALSE, err |-> Inaccessible(<<"Erreur reseau:", "sp", "timeout">>)]
    ELSE IF resp.status >= 400
    THEN [ok |-> FALSE, err |-> Inaccessible(<<"HTTP", "sp", StatusText(resp.status)>>)]
    ELSE IF ~IsHtmlType(resp.ctype)
    THEN [ok |-> FALSE, err |-> Inaccessible(<<"Content-Type non HTML:", "sp", resp.ctype>>)]
    ELSE [ok |-> TRUE, err |-> <<>>]

button_texts ==
    <<"Accept all", "Reject all", "Tout accepter", "Tout refuser", "J'accepte",
      "Je refuse", "Accepter", "Refuser", "I agree", "I accept", "Agree", "Accept">>
fallback_texts == <<"Accept", "Accepter", "Tout accepter", "I agree", "J'accepte">>

SeqRange(s) == {s[i] : i \in 1..Len(s)}

RECURSIVE ClickPass(_, _, _)
\* for txt in labels: try: click(txt); break  except Exception: pass
\* clickable: the labels whose click succeeds.  Yields the labels tried.
ClickPass(labels, i, clickable) ==
    IF i > Len(labels) THEN <<>>
    ELSE IF labels[i] \in clickable THEN <<labels[i]>>
    ELSE <<labels[i]>> \o ClickPass(labels, i + 1, clickable)

\* the click that succeeded in a pass, if any
Clicked(tried, clickable) ==
    IF tried # <<>> /\ tried[Len(tried)] \in clickable
    THEN <<tried[Len(tried)]>> ELSE <<>>

\* the browser session: goto, the button-role pass, the visible-text pass,
\* page.content().  env.fails: goto, content or close raises.
fetch_html_playwright(env) ==
    IF env.fails
    THEN [ok |-> FALSE, err |-> Inaccessible(<<"Playwright:", "sp", "Timeout 20000ms exceeded">>),
          html |-> PageBroken, role |-> <<>>, text |-> <<>>, clicks |-> <<>>]
    ELSE LET role == ClickPass(button_texts, 1, env.buttons)
             text == ClickPass(fallback_texts, 1, env.texts)
         IN [ok |-> TRUE, err |-> <<>>, html |-> env.html,
             role |-> role, text |-> text,
             clicks |-> Clicked(role, env.buttons) \o Clicked(text, env.texts)]

\* a plausible slip: the browser opened whenever the direct fetch succeeded
NeedsBrowserAlways(page) == TRUE

\* if looks_like_cookie_consent_page(html_or_err): fallback
NeedsBrowser(page) == looks_like_cookie_consent_page(page)

\* events: the network operations performed, in order
extract_page_text_feed(resp, env) ==
    LET direct == fetch_html_requests(resp)
        get == [op |-> "get", ok |-> direct.ok,
                wall |-> direct.ok /\ looks_like_cookie_consent_page(resp.page)]
    IN IF ~direct.ok
       THEN [res |-> [raised |-> FALSE, ok |-> FALSE, content |-> direct.err],
             events |-> <<get>>]
       ELSE IF NeedsBrowser(resp.page)
       THEN LET pw == fetch_html_playwright(env)
                open == [op |-> "browser", ok |-> pw.ok, wall |-> FALSE]
            IN IF ~pw.ok
               THEN [res |-> [raised |-> FALSE, ok |-> FALSE, content |-> pw.err],
                     events |-> <<get, open>>]
               ELSE [res |-> extract_text_from_html(pw.html), events |-> <<get, open>>]
       ELSE [res |-> extract_text_from_html(resp.page), events |-> <<get>>]

-----------------------------------------------------------------------------
(* Result Writer *)

RECURSIVE write_results(_, _)
\* f.write(url.strip() + "\n"); f.write(content.strip() + "\n\n")
write_results(results, i) ==
    IF i > Len(results) THEN <<>>
    ELSE Strip(results[i].url) \o <<"nl">> \o Strip(results[i].content)
         \o <<"nl", "nl">> \o write_results(results, i + 1)

-----------------------------------------------------------------------------
(* State *)

KEYWORDS == <<"pneumologie", "pneumologue">>

VARIABLES
    variant,       \* which program runs: "search" (Google100) or "feed" (GoogleNews100)
    max_results,   \* RESULTS_PER_KEYWORD, passed to the Result Source
    pc,            \* "source", "dedup", "urls", "write", "done", "raised"
    kw,            \* index of the keyword of the outer loop
    start,         \* google_custom_search: next start offset
    urls,          \* Result Source: the links collected so far
    found,         \* main: the list the Result Source returned
    idx,           \* main: position in found
    already_done,  \* main: the seen-URL set
    all_results,   \* main: the ResultSet
    written,       \* write_results was called
    outfile,       \* the text written
    crash,         \* where the exception that ended the run was raised
    \* history, read by the properties only
    nreq,          \* API requests issued by the current call
    lastStart,     \* start offset of the last API request of the call, 0 if none
    lastEmpty,     \* the last API page of the call held no items
    srcSeq,        \* the URLs the source supplied to the first call, in order
    returned,      \* the lists returned by the Result Source, concatenated
    io,            \* per URL, the network operations performed for it
    apiFailed,     \* the API answered with a status other than 200
    \* clean_text applied to a string, and once more to its result
    text_in, text_once, text_twice, applied,
    \* one browser session
    pw_env, pw_out, pw_ran

vars == <<variant, max_results, pc, kw, start, urls, found, idx, already_done,
          all_results, written, outfile, crash, nreq, lastStart, lastEmpty,
          srcSeq, returned, io, apiFailed, text_in, text_once, text_twice,
          applied, pw_env, pw_out, pw_ran>>

mainVars == <<variant, max_results, pc, kw, start, urls, found, idx, already_done,
              all_results, written, outfile, crash, nreq, lastStart, lastEmpty,
              srcSeq, returned, io, apiFailed>>
textVars == <<text_in, text_once, text_twice, applied>>
pwVars == <<pw_env, pw_out, pw_ran>>

NoSession ==
    [fails |-> TRUE, buttons |-> {}, texts |-> {}, html |-> PageBroken]

MainInit ==
    /\ pc = "source"
    /\ kw = 1
    /\ start = 1
    /\ urls = <<>>
    /\ found = <<>>
    /\ idx = 1
    /\ already_done = {}
    /\ all_results = <<>>
    /\ written = FALSE
    /\ outfile = <<>>
    /\ crash = "none"
    /\ nreq = 0
    /\ lastStart = 0
    /\ lastEmpty = FALSE
    /\ srcSeq = <<>>
    /\ returned = <<>>
    /\ io = [u \in Urls |-> <<>>]
    /\ apiFailed = FALSE

TextIdle == text_in = <<>> /\ text_once = <<>> /\ text_twice = <<>> /\ applied = 0
PwIdle ==
    /\ pw_env = NoSession
    /\ pw_out = fetch_html_playwright(NoSession)
    /\ pw_ran = FALSE

Init ==
    /\ variant \in {"search", "feed"}
    /\ max_results \in 0..MaxResults
    /\ MainInit
    /\ TextIdle
    /\ PwIdle

-----------------------------------------------------------------------------
(* Result Source actions *)

\* srcSeq is recorded for the first call of a run
Observed == kw = 1

\* one iteration of the while loop of google_custom_search
ApiRequest ==
    /\ variant = "search"
    /\ pc = "source"
    /\ Len(urls) < max_results
    /\ nreq' = nreq + 1
    /\ lastStart' = start
    /\ \E status \in ApiStatuses :
        /\ apiFailed' = (apiFailed \/ status # 200)
        /\ IF ~ApiStatusOk(status)
           THEN /\ pc' = "raised"
                /\ crash' = "api"
                /\ UNCHANGED <<start, urls, lastEmpty, srcSeq>>
           ELSE \E items \in ItemSeqs :
                /\ lastEmpty' = (items = <<>>)
                /\ crash' = crash
                /\ srcSeq' = IF Observed
                             THEN srcSeq \o SelectSeq(items, LAMBDA l : l # NoUrl)
                             ELSE srcSeq
                /\ IF items = <<>>
                   THEN /\ pc' = "dedup"
                        /\ UNCHANGED <<start, urls>>
                   ELSE /\ urls' = CollectLinks(items, 1, urls, max_results)
                        /\ start' = start + PageStep
                        /\ pc' = IF StartCapReached(start') THEN "dedup" ELSE "source"
    /\ UNCHANGED <<variant, max_results, kw, found, idx, already_done, all_results,
                   written, outfile, returned, io>>
    /\ UNCHANGED <<textVars, pwVars>>

\* after the loop: deduplicate, slice, return to main
ApiReturn ==
    /\ variant = "search"
    /\ \/ pc = "dedup"
       \/ pc = "source" /\ Len(urls) >= max_results
    /\ found' = UniqueThenCut(urls, max_results)
    /\ returned' = returned \o found'
    /\ idx' = 1
    /\ pc' = "urls"
    /\ start' = 1
    /\ urls' = <<>>
    /\ UNCHANGED <<variant, max_results, kw, already_done, all_results,
                   written, outfile, crash, nreq, lastStart, lastEmpty, srcSeq, io,
                   apiFailed>>
    /\ UNCHANGED <<textVars, pwVars>>

\* search_google_news_urls on the feed the aggregator serves
FeedSearch ==
    /\ variant = "feed"
    /\ pc = "source"
    /\ \E feed \in Feeds :
        /\ srcSeq' = IF Observed THEN Resolved(feed, 1) ELSE srcSeq
        /\ found' = search_google_news_urls(feed, max_results)
    /\ returned' = returned \o found'
    /\ idx' = 1
    /\ pc' = "urls"
    /\ UNCHANGED <<variant, max_results, kw, start, urls, already_done, all_results,
                   written, outfile, crash, nreq, lastStart, lastEmpty, io, apiFailed>>
    /\ UNCHANGED <<textVars, pwVars>>

-----------------------------------------------------------------------------
(* Pipeline Orchestrator: main *)

\* the browser environments tried in the pipeline
PipelineSessions ==
    {NoSession}
    \cup [fails : {FALSE}, buttons : {{"Tout accepter"}}, texts : {{"Accept"}}, html : Pages]

\* the history of a Result Source call is kept from its return until main's
\* next statement
CallHistoryCleared ==
    /\ UNCHANGED <<start, urls>>
    /\ nreq' = 0
    /\ lastStart' = 0
    /\ lastEmpty' = FALSE
    /\ srcSeq' = <<>>

\* a plausible slip: the seen-set never consulted
AlreadyDoneNever(url, done) == FALSE

\* if url in already_done: continue
AlreadyDone(url, done) == url \in done

PageResult(url, res) == [url |-> url, ok |-> res.ok, content |-> res.content]

\* for-loop iteration on a URL seen before
SkipUrl ==
    /\ pc = "urls"
    /\ idx <= Len(found)
    /\ AlreadyDone(found[idx], already_done)
    /\ idx' = idx + 1
    /\ CallHistoryCleared
    /\ UNCHANGED <<variant, max_results, pc, kw, found, already_done, all_results,
                   written, outfile, crash, returned, io, apiFailed>>
    /\ UNCHANGED <<textVars, pwVars>>

\* feed pipeline: for-loop iteration on an aggregator/consent-domain link
IgnoreUrl ==
    /\ variant = "feed"
    /\ pc = "urls"
    /\ idx <= Len(found)
    /\ ~AlreadyDone(found[idx], already_done)
    /\ is_google_or_consent_url(found[idx])
    /\ already_done' = already_done \cup {found[idx]}
    /\ all_results' = Append(all_results,
                             PageResult(found[idx],
                                        Failure(<<"Lien Google/consentement ignore">>)))
    /\ idx' = idx + 1
    /\ CallHistoryCleared
    /\ UNCHANGED <<variant, max_results, pc, kw, found, written, outfile, crash,
                   returned, io, apiFailed>>
    /\ UNCHANGED <<textVars, pwVars>>

\* feed pipeline: for-loop iteration that fetches and extracts
FetchUrlFeed ==
    /\ variant = "feed"
    /\ pc = "urls"
    /\ idx <= Len(found)
    /\ ~AlreadyDone(found[idx], already_done)
    /\ ~is_google_or_consent_url(found[idx])
    /\ already_done' = already_done \cup {found[idx]}
    /\ \E resp \in Responses, env \in PipelineSessions :
        LET r == extract_page_text_feed(resp, env) IN
        /\ io' = [io EXCEPT ![found[idx]] = @ \o r.events]
        /\ all_results' = Append(all_results, PageResult(found[idx], r.res))
    /\ idx' = idx + 1
    /\ CallHistoryCleared
    /\ UNCHANGED <<variant, max_results, pc, kw, found, written, outfile, crash,
                   returned, apiFailed>>
    /\ UNCHANGED <<textVars, pwVars>>

\* search pipeline: for-loop iteration that fetches and extracts; an
\* exception that leaves extract_page_text ends main
FetchUrlSearch ==
    /\ variant = "search"
    /\ pc = "urls"
    /\ idx <= Len(found)
    /\ ~AlreadyDone(found[idx], already_done)
    /\ already_done' = already_done \cup {found[idx]}
    /\ \E resp \in Responses :
        LET r == extract_page_text_search(resp) IN
        /\ io' = [io EXCEPT ![found[idx]] =
                     Append(@, [op |-> "get", ok |-> ~r.raised /\ r.ok, wall |-> FALSE])]
        /\ IF r.raised
           THEN /\ pc' = "raised"
                /\ crash' = "extract"
                /\ UNCHANGED <<all_results, idx>>
           ELSE /\ all_results' = Append(all_results, PageResult(found[idx], r))
                /\ idx' = idx + 1
                /\ UNCHANGED <<pc, crash>>
    /\ CallHistoryCleared
    /\ UNCHANGED <<variant, max_results, kw, found, written, outfile, returned,
                   apiFailed>>
    /\ UNCHANGED <<textVars, pwVars>>

\* the URLs of a keyword are exhausted: next keyword, or leave the loop
NextKeyword ==
    /\ pc = "urls"
    /\ idx > Len(found)
    /\ IF kw < Len(KEYWORDS)
       THEN kw' = kw + 1 /\ pc' = "source"
       ELSE kw' = kw /\ pc' = "write"
    /\ CallHistoryCleared
    /\ UNCHANGED <<variant, max_results, found, idx, already_done, all_results,
                   written, outfile, crash, returned, io, apiFailed>>
    /\ UNCHANGED <<textVars, pwVars>>

WriteResults ==
    /\ pc = "write"
    /\ outfile' = write_results(all_results, 1)
    /\ written' = TRUE
    /\ pc' = "done"
    /\ UNCHANGED <<variant, max_results, kw, start, urls, found, idx, already_done,
                   all_results, crash, nreq, lastStart, lastEmpty, srcSeq, returned,
                   io, apiFailed>>
    /\ UNCHANGED <<textVars, pwVars>>

Next ==
    \/ ApiRequest
    \/ ApiReturn
    \/ FeedSearch
    \/ SkipUrl
    \/ IgnoreUrl
    \/ FetchUrlFeed
    \/ FetchUrlSearch
    \/ NextKeyword
    \/ WriteResults

\* both pipelines, whole runs
Spec == Init /\ [][Next]_vars

NextSource == ApiRequest \/ ApiReturn \/ FeedSearch

\* one call of a Result Source; the program runs on as long as it can step
SpecSource == Init /\ [][NextSource]_vars /\ WF_vars(NextSource)

-----------------------------------------------------------------------------
(* clean_text on every string up to MaxLen characters *)

Strings == UNION {[1..n -> Chars] : n \in 0..MaxLen}

InitClean ==
    /\ variant = "search"
    /\ max_results = 0
    /\ MainInit
    /\ PwIdle
    /\ text_in \in Strings
    /\ text_once = <<>>
    /\ text_twice = <<>>
    /\ applied = 0

CleanOnce ==
    /\ applied = 0
    /\ text_once' = clean_text(text_in)
    /\ applied' = 1
    /\ UNCHANGED <<text_in, text_twice>>
    /\ UNCHANGED <<mainVars, pwVars>>

CleanTwice ==
    /\ applied = 1
    /\ text_twice' = clean_text(text_once)
    /\ applied' = 2
    /\ UNCHANGED <<text_in, text_once>>
    /\ UNCHANGED <<mainVars, pwVars>>

NextClean == CleanOnce \/ CleanTwice

SpecClean == InitClean /\ [][NextClean]_vars

-----------------------------------------------------------------------------
(* fetch_html_playwright in every click environment *)

Sessions ==
    {NoSession}
    \cup [fails : {FALSE}, buttons : SUBSET SeqRange(button_texts),
          texts : SUBSET SeqRange(fallback_texts), html : {PageConsent}]

InitSession ==
    /\ variant = "feed"
    /\ max_results = 0
    /\ MainInit
    /\ TextIdle
    /\ pw_env \in Sessions
    /\ pw_out = fetch_html_playwright(NoSession)
    /\ pw_ran = FALSE

RunSession ==
    /\ ~pw_ran
    /\ pw_out' = fetch_html_playwright(pw_env)
    /\ pw_ran' = TRUE
    /\ UNCHANGED pw_env
    /\ UNCHANGED <<mainVars, textVars>>

SpecSession == InitSession /\ [][RunSession]_vars

-----------------------------------------------------------------------------
(* Properties *)

NoRepeat(s) == \A i, j \in 1..Len(s) : s[i] = s[j] => i = j

\* position of the first occurrence of u in s (u occurs in s)
FirstAt(s, u) == CHOOSE i \in 1..Len(s) : s[i] = u /\ \A j \in 1..(i - 1) : s[j] # u

\* out lists elements of src, each once, in the order of their first
\* occurrences in src
InFirstOccurrenceOrder(out, src) ==
    /\ NoRepeat(out)
    /\ \A i \in 1..Len(out) : out[i] \in SeqRange(src)
    /\ \A i, j \in 1..Len(out) : i < j => FirstAt(src, out[i]) < FirstAt(src, out[j])

ResultUrls == [i \in 1..Len(all_results) |-> all_results[i].url]

Count(s, op) == Cardinality({i \in 1..Len(s) : s[i].op = op})

\* C1: a failure while fetching or extracting a URL is returned as an
\* inaccessible PageResult and never raised out of extract_page_text, so the
\* run is never ended by it.
C1_PerUrlFailureNeverRaised == crash # "extract"

\* C2: once the search API has answered with a status other than 200 the run
\* has stopped with the error: write_results is not called, and no API
\* request, page fetch, keyword step or result is added afterwards.
C2_ApiFailureStopsRun ==
    /\ [](apiFailed => (pc = "raised" /\ crash = "api" /\ ~written))
    /\ [][apiFailed => UNCHANGED <<nreq, io, kw, idx, all_results, written, outfile>>]_vars

C2_Witness ==
    apiFailed /\ pc = "raised" /\ kw = 2 /\ Len(all_results) >= 2 /\ ~written

\* the offsets requested so far are 1, 11, 21, ..., none above 91
C3_Offsets ==
    /\ nreq \in 0..10
    /\ lastStart = (IF nreq = 0 THEN 0 ELSE 1 + 10 * (nreq - 1))
    /\ lastStart <= 91

\* a request is issued only while the last page held items and fewer than
\* max_results links are collected, at an offset above the last one
C3_RequestAllowed ==
    nreq' = nreq + 1 =>
        /\ ~lastEmpty
        /\ Len(urls) < max_results
        /\ lastStart' > lastStart

\* C3: one call of google_custom_search requests the offsets 1, 11, 21, ...
\* in increasing order, none above 91 and at most 10 of them, issues no
\* request after an empty page or once max_results links are collected, and
\* terminates.
C3_Pagination ==
    /\ []C3_Offsets
    /\ [][C3_RequestAllowed]_vars
    /\ <>(pc \in {"urls", "raised"})

C3_Witness == variant = "search" /\ pc = "urls" /\ nreq = 10 /\ lastStart = 91

\* C4: the list a Result Source returns has no URL twice, at most
\* max_results elements, and lists URLs of the source sequence in the order
\* of their first occurrences.
C4_DedupFirstOccurrence ==
    pc = "urls" =>
        /\ Len(found) <= max_results
        /\ InFirstOccurrenceOrder(found, srcSeq)

C4_Witness ==
    /\ pc = "urls"
    /\ Len(found) = 2
    /\ \E i, j \in 1..Len(srcSeq) : i < j /\ srcSeq[i] = srcSeq[j] /\ srcSeq[i] = found[1]

\* C5: the ResultSet given to write_results holds exactly one PageResult per
\* distinct URL returned by the Result Source over all keywords, in the order
\* of first occurrence, and no URL was fetched more than once.
C5_OneResultPerUrl ==
    written =>
        /\ InFirstOccurrenceOrder(ResultUrls, returned)
        /\ SeqRange(ResultUrls) = SeqRange(returned)
        /\ \A u \in Urls : Count(io[u], "get") <= 1

C5_Witness ==
    /\ written
    /\ Len(all_results) >= 2
    /\ ~NoRepeat(returned)
    /\ \E i \in 1..Len(all_results) : ~all_results[i].ok

\* C6: a PageResult with ok false carries content that begins with the
\* marker; one with ok true carries content that is not empty.
C6_ResultContent ==
    \A i \in 1..Len(all_results) :
        LET r == all_results[i] IN
        IF r.ok THEN r.content # <<>>
        ELSE r.content # <<>> /\ r.content[1] = "[INACCESSIBLE]"

C6_Witness ==
    /\ \E i \in 1..Len(all_results) : all_results[i].ok
    /\ \E i \in 1..Len(all_results) :
          all_results[i].content = Inaccessible(<<"Contenu vide ou non extractible">>)

\* C7: the browser is opened for a URL at most once, only right after a
\* direct fetch of that URL that succeeded and matched the consent detector,
\* and never for an aggregator/consent-domain URL.
C7_BrowserOnlyAfterConsentWall ==
    \A u \in Urls :
        /\ Count(io[u], "browser") <= 1
        /\ is_google_or_consent_url(u) /\ variant = "feed" => io[u] = <<>>
        /\ \A i \in 1..Len(io[u]) :
              io[u][i].op = "browser" =>
                  /\ i > 1
                  /\ io[u][i - 1].op = "get"
                  /\ io[u][i - 1].ok
                  /\ io[u][i - 1].wall

C7_Witness ==
    /\ pc = "done"
    /\ \E u \in Urls : Count(io[u], "browser") = 1
    /\ \E u \in Urls : io[u] # <<>> /\ ~io[u][1].ok
    /\ \E i \in 1..Len(all_results) : is_google_or_consent_url(all_results[i].url)

\* C8: clean_text applied to its own result gives that result.
C8_CleanTextIdempotent == applied = 2 => text_twice = text_once

C8_Witness == applied = 2 /\ text_once # text_in /\ text_once # <<>>

\* C9: when the source supplies at least max_results distinct URLs, the
\* Result Source returns the first max_results distinct URLs in source order.
C9_FullCount ==
    (pc = "urls" /\ Cardinality(SeqRange(srcSeq)) >= max_results) =>
        /\ Len(found) = max_results
        /\ InFirstOccurrenceOrder(found, srcSeq)
        /\ \A u \in SeqRange(srcSeq) :
              u \in SeqRange(found)
              \/ \A i \in 1..Len(found) : FirstAt(srcSeq, found[i]) < FirstAt(srcSeq, u)

\* C10: in a browser session the visible-text pass is attempted only if no
\* button-role click succeeded, so at most one consent click is performed.
C10_AtMostOneClick ==
    (pw_ran /\ pw_out.ok) =>
        /\ Len(pw_out.clicks) <= 1
        /\ (pw_out.role # <<>> /\ pw_out.role[Len(pw_out.role)] \in pw_env.buttons)
              => pw_out.text = <<>>

=============================================================================
